---- MODULE Spec2Model ----
(***************************************************************************)
(* pyannotator: a facade (AnnotationTool / Annotator) over annotation      *)
(* backends, and the Supervisely adapter SlyBackend.                       *)
(*                                                                         *)
(* The remote platform is the variable `remote` (projects, datasets,       *)
(* images and the id counter of the platform); the adapter instance is     *)
(* `inst`; `last` records the most recent call: who made it, the           *)
(* arguments, the vendor calls it issued in order, the exception that      *)
(* reached the caller and the value returned.                              *)
(*                                                                         *)
(* Python values: the string "None" stands for None, the id 0 for a None   *)
(* id; an optional list is [given |-> BOOLEAN, items |-> sequence].        *)
(***************************************************************************)
EXTENDS Integers, Sequences, FiniteSets, TLC

VARIABLES remote, inst, last

vars == <<remote, inst, last>>

\* How many projects, datasets and images the platform accepts; it numbers
\* each kind from 1.
MaxProjects == 1

MaxDatasets == 1

MaxImages == 1

(***************************************************************************)
(* Input domains                                                           *)
(***************************************************************************)
\* The ids a caller passes: every id the platform can hand out and one it
\* never does.
ProjectIdArgs == 1..(MaxProjects + 1)

DatasetIdArgs == 1..(MaxDatasets + 1)

\* A name as the platform stores it: the requested text and the numeric
\* suffix the platform appends when the name is already taken (0: none).
Name(base) == [base |-> base, n |-> 0]

\* (name, description, project_type) of a project and (name, description)
\* of a dataset as callers pass them.
ProjectArgs ==
    {[name |-> Name(""), description |-> "", project_type |-> "IMAGES"],
     [name |-> Name("P"), description |-> "d", project_type |-> "VIDEOS"]}

DatasetArgs ==
    {[name |-> Name(""), description |-> ""], [name |-> Name("P"), description |-> "d"]}

\* antypes/main.py: the members of ProjectType and of GeometryType.
ProjectType == {"IMAGES", "VIDEOS", "VOLUMES"}

GeometryType == {"POLYGON", "BITMAP", "BBOX", "POINT", "POLYLINE"}

\* A class dictionary is described by its "geometry_type" entry ("absent":
\* the dictionary has no such key).
NoClasses == [given |-> FALSE, items |-> <<>>]

ClassesArgs ==
    {NoClasses, [given |-> TRUE, items |-> <<>>]}
      \cup {[given |-> TRUE, items |-> <<g>>] : g \in {"absent", "BITMAP"}}

\* Strings a caller passes as path or link; "" is the empty string.
PathArgs == {"None", "", "p"}

LinkArgs == {"None", "", "l"}

\* numpy arrays by the only thing the code asks of them, their truth value:
\* no elements, one non-zero element, several elements.
NpArgs == {"None", "empty", "one1", "many"}

NoList == [given |-> FALSE, items |-> <<>>]

ListArgs(x) == {NoList, [given |-> TRUE, items |-> <<>>], [given |-> TRUE, items |-> <<x>>]}

(***************************************************************************)
(* Results of a call                                                       *)
(***************************************************************************)
NoneRet == [kind |-> "None"]

VCall(name, raised) == [name |-> name, raised |-> raised]

\* What one adapter operation leaves behind.
Out(R, I, calls, exc, ret) ==
    [remote |-> R, inst |-> I, calls |-> calls, exc |-> exc, ret |-> ret]

(***************************************************************************)
(* The remote platform as the adapter's vendor calls see it.  Every vendor *)
(* call may raise (the network, the platform's own checks); `fail` says    *)
(* that this one does.  A vendor call answers                              *)
(* [raised, remote, value].                                                *)
(***************************************************************************)
EmptyRemote ==
    [projects |-> {}, datasets |-> {}, images |-> {},
     nextProject |-> 1, nextDataset |-> 1, nextImage |-> 1]

VRaise(R) == [raised |-> TRUE, remote |-> R, value |-> NoneRet]

VOk(R, v) == [raised |-> FALSE, remote |-> R, value |-> v]

ProjectIds(R) == {p.id : p \in R.projects}

DatasetIds(R) == {d.id : d \in R.datasets}

ProjectOf(R, id) == CHOOSE p \in R.projects : p.id = id

DatasetOf(R, id) == CHOOSE d \in R.datasets : d.id = id

\* change_name_if_conflict=True: the platform appends the first free suffix.
RECURSIVE FreeNameFrom(_, _, _)
FreeNameFrom(base, k, taken) ==
    IF [base |-> base, n |-> k] \notin taken
    THEN [base |-> base, n |-> k]
    ELSE FreeNameFrom(base, k + 1, taken)

FreeName(name, taken) == FreeNameFrom(name.base, name.n, taken)

\* self.api.project.create(workspace_id, name, description, type,
\*                         change_name_if_conflict=True)
api_project_create(R, name, description, type, fail) ==
    IF fail \/ R.nextProject > MaxProjects THEN VRaise(R)
    ELSE LET p == [id |-> R.nextProject,
                   name |-> FreeName(name, {q.name : q \in R.projects}),
                   description |-> description,
                   type |-> type,
                   meta |-> <<>>]
         IN VOk([R EXCEPT !.projects = @ \cup {p}, !.nextProject = @ + 1], p)

\* self.api.project.update_meta(id, meta)
api_project_update_meta(R, id, obj_classes, fail) ==
    IF fail \/ id \notin ProjectIds(R) THEN VRaise(R)
    ELSE LET p == ProjectOf(R, id)
             q == [p EXCEPT !.meta = obj_classes]
         IN VOk([R EXCEPT !.projects = (@ \ {p}) \cup {q}], q)

\* self.api.project.get_info_by_id(proj_id): None for an unknown id.
api_project_get_info_by_id(R, id, fail) ==
    IF fail THEN VRaise(R)
    ELSE IF id \notin ProjectIds(R) THEN VOk(R, NoneRet)
    ELSE VOk(R, [kind |-> "sly.ProjectInfo", info |-> ProjectOf(R, id)])

\* self.api.dataset.create(project_id, name, description,
\*                         change_name_if_conflict=True)
api_dataset_create(R, project_id, name, description, fail) ==
    IF fail \/ project_id \notin ProjectIds(R) \/ R.nextDataset > MaxDatasets
    THEN VRaise(R)
    ELSE LET taken == {e.name : e \in {x \in R.datasets : x.project_id = project_id}}
             d == [id |-> R.nextDataset,
                   name |-> FreeName(name, taken),
                   description |-> description,
                   project_id |-> project_id]
         IN VOk([R EXCEPT !.datasets = @ \cup {d}, !.nextDataset = @ + 1], d)

\* self.api.project.update(id, name, description): the platform refuses an
\* unknown id and a name another project already has.
api_project_update(R, id, name, description, fail) ==
    IF fail \/ id \notin ProjectIds(R)
         \/ name \in {q.name : q \in {x \in R.projects : x.id # id}}
    THEN VRaise(R)
    ELSE LET p == ProjectOf(R, id)
             q == [p EXCEPT !.name = name, !.description = description]
         IN VOk([R EXCEPT !.projects = (@ \ {p}) \cup {q}], q)

\* self.api.project.remove(proj_id): the project goes with its datasets and
\* their images.
api_project_remove(R, id, fail) ==
    IF fail \/ id \notin ProjectIds(R) THEN VRaise(R)
    ELSE LET gone == {d.id : d \in {x \in R.datasets : x.project_id = id}} IN
         VOk([R EXCEPT !.projects = {p \in @ : p.id # id},
                       !.datasets = {d \in @ : d.project_id # id},
                       !.images = {im \in @ : im.dataset_id \notin gone}],
             NoneRet)

\* self.api.dataset.update(dataset_id, name=..., description=...)
api_dataset_update(R, id, name, description, fail) ==
    IF fail \/ id \notin DatasetIds(R)
         \/ name \in {e.name : e \in {x \in R.datasets :
                                         /\ x.id # id
                                         /\ x.project_id = DatasetOf(R, id).project_id}}
    THEN VRaise(R)
    ELSE LET d == DatasetOf(R, id)
             e == [d EXCEPT !.name = name, !.description = description]
         IN VOk([R EXCEPT !.datasets = (@ \ {d}) \cup {e}], e)

\* self.api.dataset.remove(dataset_id)
api_dataset_remove(R, id, fail) ==
    IF fail \/ id \notin DatasetIds(R) THEN VRaise(R)
    ELSE VOk([R EXCEPT !.datasets = {d \in @ : d.id # id},
                       !.images = {im \in @ : im.dataset_id # id}],
             NoneRet)

\* self.api.dataset.get_list(proj_id): the datasets of that project (none
\* for a project the platform does not have, when it does not raise).
api_dataset_get_list(R, project_id, fail) ==
    IF fail THEN VRaise(R)
    ELSE VOk(R, {d \in R.datasets : d.project_id = project_id})

\* self.api.dataset.get_list_all().get("entities", [])
api_dataset_get_list_all(R, fail) ==
    IF fail THEN VRaise(R) ELSE VOk(R, R.datasets)

\* self.api.dataset.get_info_by_id(dataset_id): None for an unknown id.
api_dataset_get_info_by_id(R, id, fail) ==
    IF fail THEN VRaise(R)
    ELSE IF id \notin DatasetIds(R) THEN VOk(R, NoneRet)
    ELSE VOk(R, [kind |-> "sly.DatasetInfo", info |-> DatasetOf(R, id)])

\* self.api.image.upload_path / upload_link / upload_np: `link` is the link
\* field of the sly.ImageInfo the platform answers with.
api_image_upload(R, dataset_id, name, link, fail) ==
    IF fail \/ dataset_id \notin DatasetIds(R) \/ R.nextImage > MaxImages THEN VRaise(R)
    ELSE LET im == [id |-> R.nextImage, dataset_id |-> dataset_id, name |-> name]
         IN VOk([R EXCEPT !.images = @ \cup {im}, !.nextImage = @ + 1],
                [id |-> im.id, name |-> name, link |-> link])

\* self.api.image.upload_paths / upload_links / upload_nps: one image per
\* name, all or nothing.
api_image_upload_batch(R, dataset_id, names, fail) ==
    IF fail \/ dataset_id \notin DatasetIds(R)
         \/ R.nextImage + Len(names) - 1 > MaxImages
    THEN VRaise(R)
    ELSE LET ims == [i \in 1..Len(names) |->
                        [id |-> R.nextImage + i - 1, dataset_id |-> dataset_id,
                         name |-> names[i]]]
         IN VOk([R EXCEPT !.images = @ \cup {ims[i] : i \in 1..Len(names)},
                          !.nextImage = @ + Len(names)],
                ims)

(***************************************************************************)
(* SlyBackend (backends/sly.py).  An operation takes the remote state R,   *)
(* the instance I and its arguments, and answers Out(...).  `f` is the     *)
(* position of the vendor call that raises (0: none does).                 *)
(***************************************************************************)
project_type_mapping ==
    [t \in ProjectType |->
        CASE t = "IMAGES" -> "images" [] t = "VIDEOS" -> "videos" [] t = "VOLUMES" -> "volumes"]

\* SlyClass.geometry_type_mapping: GeometryType -> vendor geometry class.
SlyClass_geometry_type_mapping ==
    [g \in {"POLYGON", "BITMAP", "BBOX", "POINT", "POLYLINE"} |->
        CASE g = "POLYGON" -> "Polygon" [] g = "BITMAP" -> "Bitmap"
          [] g = "BBOX" -> "Rectangle" [] g = "POINT" -> "Point"
          [] g = "POLYLINE" -> "Polyline"]

\* SlyBackend.geometry_type_mapping: GeometryType -> vendor geometry class.
geometry_type_mapping ==
    [g \in {"BBOX", "POLYGON", "POLYLINE", "POINT"} |->
        CASE g = "BBOX" -> "Rectangle" [] g = "POLYGON" -> "Polygon"
          [] g = "POLYLINE" -> "Polyline" [] g = "POINT" -> "Point"]

\* _cls.get("geometry_type", _cls.get("geometry_type", GeometryType.BBOX))
ClassGeometryKey(c) == IF c = "absent" THEN "BBOX" ELSE c

\* for _cls in classes: iterating None raises TypeError, a geometry type
\* the table lacks raises KeyError.
_create_class_obj_collection(classes) ==
    IF ~classes.given THEN [exc |-> "TypeError", value |-> <<>>]
    ELSE IF \E i \in 1..Len(classes.items) :
                ClassGeometryKey(classes.items[i]) \notin DOMAIN geometry_type_mapping
    THEN [exc |-> "KeyError", value |-> <<>>]
    ELSE [exc |-> "none",
          value |-> [i \in 1..Len(classes.items) |->
                        geometry_type_mapping[ClassGeometryKey(classes.items[i])]]]

DatasetInfo(d, project_id) ==
    [kind |-> "DatasetInfo", id |-> d.id, name |-> d.name,
     description |-> d.description, project_id |-> project_id]

ProjectInfo(id, name, description, type, classes) ==
    [kind |-> "ProjectInfo", id |-> id, name |-> name,
     description |-> description, type |-> type, classes |-> classes]

\* Mutant: a failed dataset.create is tried once more.
SlyBackend_create_dataset_retry(R, I, project_id, name, description, f) ==
    LET c == api_dataset_create(R, project_id, name, description, f = 1)
        c2 == api_dataset_create(R, project_id, name, description, FALSE)
        k2 == <<VCall("dataset.create", TRUE), VCall("dataset.create", c2.raised)>>
    IN
    IF ~c.raised
    THEN Out(c.remote, I, <<VCall("dataset.create", FALSE)>>, "none",
             DatasetInfo(c.value, project_id))
    ELSE IF c2.raised THEN Out(R, I, k2, "VendorError", NoneRet)
    ELSE Out(c2.remote, I, k2, "none", DatasetInfo(c2.value, project_id))

\* Mutant: the vendor's exception is swallowed and None returned (as
\* _get_user does with a failed lookup).
SlyBackend_create_dataset_swallow(R, I, project_id, name, description, f) ==
    LET c == api_dataset_create(R, project_id, name, description, f = 1) IN
    IF c.raised
    THEN Out(R, I, <<VCall("dataset.create", TRUE)>>, "none", NoneRet)
    ELSE Out(c.remote, I, <<VCall("dataset.create", FALSE)>>, "none",
             DatasetInfo(c.value, project_id))

\* Mutant: the returned record carries the requested name, not the one the
\* platform assigned.
SlyBackend_create_dataset_echoname(R, I, project_id, name, description, f) ==
    LET c == api_dataset_create(R, project_id, name, description, f = 1) IN
    IF c.raised
    THEN Out(R, I, <<VCall("dataset.create", TRUE)>>, "VendorError", NoneRet)
    ELSE Out(c.remote, I, <<VCall("dataset.create", FALSE)>>, "none",
             DatasetInfo([c.value EXCEPT !.name = name], project_id))

SlyBackend_create_dataset(R, I, project_id, name, description, f) ==
    LET c == api_dataset_create(R, project_id, name, description, f = 1) IN
    IF c.raised
    THEN Out(R, I, <<VCall("dataset.create", TRUE)>>, "VendorError", NoneRet)
    ELSE Out(c.remote, I, <<VCall("dataset.create", FALSE)>>, "none",
             DatasetInfo(c.value, project_id))

\* Mutant: an empty name is refused with ValueError before the platform is
\* asked.
SlyBackend_create_project_checked(R, I, name, description, project_type, classes, f) ==
    LET c1 == api_project_create(R, name, description,
                                 project_type_mapping[project_type], f = 1)
        proj == c1.value
        coll == _create_class_obj_collection(classes)
        c2 == api_project_update_meta(c1.remote, proj.id, coll.value, f = 2)
        ds == SlyBackend_create_dataset(c2.remote, I, proj.id, name, "",
                                        IF f = 3 THEN 1 ELSE 0)
        k1 == <<VCall("project.create", c1.raised)>>
        k2 == k1 \o <<VCall("project.update_meta", c2.raised)>>
    IN
    IF name.base = "" THEN Out(R, I, <<>>, "ValueError", NoneRet)
    ELSE IF c1.raised THEN Out(R, I, k1, "VendorError", NoneRet)
    ELSE IF coll.exc # "none" THEN Out(c1.remote, I, k1, coll.exc, NoneRet)
    ELSE IF c2.raised THEN Out(c1.remote, I, k2, "VendorError", NoneRet)
    ELSE IF ds.exc # "none" THEN Out(ds.remote, I, k2 \o ds.calls, ds.exc, NoneRet)
    ELSE Out(ds.remote, [I EXCEPT !.current_project_id = proj.id],
             k2 \o ds.calls, "none",
             ProjectInfo(proj.id, proj.name, proj.description, proj.type, classes))

\* Mutant: create_project stops after the project's meta, creating no
\* dataset.
SlyBackend_create_project_nodataset(R, I, name, description, project_type, classes, f) ==
    LET c1 == api_project_create(R, name, description,
                                 project_type_mapping[project_type], f = 1)
        proj == c1.value
        coll == _create_class_obj_collection(classes)
        c2 == api_project_update_meta(c1.remote, proj.id, coll.value, f = 2)
        k1 == <<VCall("project.create", c1.raised)>>
        k2 == k1 \o <<VCall("project.update_meta", c2.raised)>>
    IN
    IF c1.raised THEN Out(R, I, k1, "VendorError", NoneRet)
    ELSE IF coll.exc # "none" THEN Out(c1.remote, I, k1, coll.exc, NoneRet)
    ELSE IF c2.raised THEN Out(c1.remote, I, k2, "VendorError", NoneRet)
    ELSE Out(c2.remote, [I EXCEPT !.current_project_id = proj.id], k2, "none",
             ProjectInfo(proj.id, proj.name, proj.description, proj.type, classes))

SlyBackend_create_project(R, I, name, description, project_type, classes, f) ==
    LET c1 == api_project_create(R, name, description,
                                 project_type_mapping[project_type], f = 1)
        proj == c1.value
        coll == _create_class_obj_collection(classes)
        c2 == api_project_update_meta(c1.remote, proj.id, coll.value, f = 2)
        ds == SlyBackend_create_dataset(c2.remote, I, proj.id, name, "",
                                        IF f = 3 THEN 1 ELSE 0)
        k1 == <<VCall("project.create", c1.raised)>>
        k2 == k1 \o <<VCall("project.update_meta", c2.raised)>>
    IN
    IF c1.raised THEN Out(R, I, k1, "VendorError", NoneRet)
    ELSE IF coll.exc # "none" THEN Out(c1.remote, I, k1, coll.exc, NoneRet)
    ELSE IF c2.raised THEN Out(c1.remote, I, k2, "VendorError", NoneRet)
    ELSE IF ds.exc # "none" THEN Out(ds.remote, I, k2 \o ds.calls, ds.exc, NoneRet)
    ELSE Out(ds.remote, [I EXCEPT !.current_project_id = proj.id],
             k2 \o ds.calls, "none",
             ProjectInfo(proj.id, proj.name, proj.description, proj.type, classes))

\* Mutant: get_project answers from what the adapter remembers of the
\* project it created, without asking the platform.
SlyBackend_get_project_cached(R, I, proj_id, f) ==
    LET c == api_project_get_info_by_id(R, proj_id, f = 1)
        k == <<VCall("project.get_info_by_id", c.raised)>>
    IN
    IF proj_id = I.current_project_id
    THEN Out(R, I, <<>>, "none", ProjectInfo(proj_id, Name("P"), "d", "images", NoClasses))
    ELSE IF c.raised THEN Out(R, I, k, "VendorError", NoneRet)
    ELSE IF c.value.kind = "None" THEN Out(R, I, k, "AttributeError", NoneRet)
    ELSE LET proj == c.value.info IN
         Out(R, I, k, "none",
             ProjectInfo(proj.id, proj.name, proj.description, proj.type, NoClasses))

SlyBackend_get_project(R, I, proj_id, f) ==
    LET c == api_project_get_info_by_id(R, proj_id, f = 1)
        k == <<VCall("project.get_info_by_id", c.raised)>>
    IN
    IF c.raised THEN Out(R, I, k, "VendorError", NoneRet)
    ELSE IF c.value.kind = "None" THEN Out(R, I, k, "AttributeError", NoneRet)
    ELSE LET proj == c.value.info IN
         Out(R, I, k, "none",
             ProjectInfo(proj.id, proj.name, proj.description, proj.type, NoClasses))

\* A Python value used as a condition: None and "" are false, an enum
\* member and a non-empty string are true.
ValueTruthy(x) == x \notin {"None", ""}

\* A value that a field declared `str` accepts: a str, not None and not a
\* member of the (plain) enum ProjectType.
IsStr(x) == x # "None" /\ x \notin ProjectType

\* Where the `id=` of the record each operation returns comes from: a field
\* of the vendor's response, or the caller's argument (update_project:
\* id=project_id).
IdSource(op) ==
    IF op = "update_project" THEN "argument" ELSE "response"

\* Mutant: update_project answers without asking the platform to update.
SlyBackend_update_project_unchecked(R, I, project_id, name, description, classes, project_type, f) ==
    IF ~IsStr(project_type) THEN Out(R, I, <<>>, "PydanticValidationError", NoneRet)
    ELSE Out(R, I, <<>>, "none",
             ProjectInfo(project_id, name, description, project_type, classes))

\* update_project(project_id, name, description, classes, project_type, tags)
\* with tags left None.
SlyBackend_update_project(R, I, project_id, name, description, classes, project_type, f) ==
    LET c1 == api_project_update(R, project_id, name, description, f = 1)
        k1 == <<VCall("project.update", c1.raised)>>
        withMeta == (classes.given /\ classes.items # <<>>) \/ ValueTruthy(project_type)
        coll == _create_class_obj_collection(classes)
        c2 == api_project_update_meta(c1.remote, project_id, coll.value, f = 2)
        k2 == k1 \o <<VCall("project.update_meta", c2.raised)>>
        R2 == IF withMeta THEN c2.remote ELSE c1.remote
        k == IF withMeta THEN k2 ELSE k1
    IN
    IF c1.raised THEN Out(R, I, k1, "VendorError", NoneRet)
    ELSE IF withMeta /\ coll.exc # "none" THEN Out(c1.remote, I, k1, coll.exc, NoneRet)
    ELSE IF withMeta /\ c2.raised THEN Out(c1.remote, I, k2, "VendorError", NoneRet)
    ELSE IF ~IsStr(project_type) THEN Out(R2, I, k, "PydanticValidationError", NoneRet)
    ELSE Out(R2, I, k, "none",
             ProjectInfo(project_id, name, description, project_type, classes))

SlyBackend_delete_project(R, I, proj_id, f) ==
    LET c == api_project_remove(R, proj_id, f = 1)
        k == <<VCall("project.remove", c.raised)>>
    IN
    IF c.raised THEN Out(R, I, k, "VendorError", NoneRet)
    ELSE Out(c.remote, I, k, "none", NoneRet)

SlyBackend_update_dataset(R, I, dataset_id, name, description, f) ==
    LET c == api_dataset_update(R, dataset_id, name, description, f = 1)
        k == <<VCall("dataset.update", c.raised)>>
    IN
    IF c.raised THEN Out(R, I, k, "VendorError", NoneRet)
    ELSE Out(c.remote, I, k, "none", NoneRet)

\* Mutant: list_datasets takes every dataset the platform has and stamps
\* the requested project id on it.
SlyBackend_list_datasets_unfiltered(R, I, proj_id, f) ==
    LET c == api_dataset_get_list_all(R, f = 1)
        k == <<VCall("dataset.get_list", c.raised)>>
    IN
    IF c.raised THEN Out(R, I, k, "VendorError", NoneRet)
    ELSE Out(R, I, k, "none",
             [kind |-> "list[DatasetInfo]",
              items |-> {DatasetInfo(d, proj_id) : d \in c.value}])

SlyBackend_list_datasets(R, I, proj_id, f) ==
    LET c == api_dataset_get_list(R, proj_id, f = 1)
        k == <<VCall("dataset.get_list", c.raised)>>
    IN
    IF c.raised THEN Out(R, I, k, "VendorError", NoneRet)
    ELSE Out(R, I, k, "none",
             [kind |-> "list[DatasetInfo]",
              items |-> {DatasetInfo(d, proj_id) : d \in c.value}])

SlyBackend_list_all_datasets(R, I, f) ==
    LET c == api_dataset_get_list_all(R, f = 1)
        k == <<VCall("dataset.get_list_all", c.raised)>>
    IN
    IF c.raised THEN Out(R, I, k, "VendorError", NoneRet)
    ELSE Out(R, I, k, "none",
             [kind |-> "list[DatasetInfo]",
              items |-> {DatasetInfo(d, d.project_id) : d \in c.value}])

\* Mutant: get_dataset refuses to work before a project was created through
\* this adapter.
SlyBackend_get_dataset_current(R, I, dataset_id, f) ==
    LET c == api_dataset_get_info_by_id(R, dataset_id, f = 1)
        k == <<VCall("dataset.get_info_by_id", c.raised)>>
    IN
    IF I.current_project_id = 0 THEN Out(R, I, <<>>, "ValueError", NoneRet)
    ELSE IF c.raised THEN Out(R, I, k, "VendorError", NoneRet)
    ELSE IF c.value.kind = "None" THEN Out(R, I, k, "AttributeError", NoneRet)
    ELSE Out(R, I, k, "none", DatasetInfo(c.value.info, c.value.info.project_id))

SlyBackend_get_dataset(R, I, dataset_id, f) ==
    LET c == api_dataset_get_info_by_id(R, dataset_id, f = 1)
        k == <<VCall("dataset.get_info_by_id", c.raised)>>
    IN
    IF c.raised THEN Out(R, I, k, "VendorError", NoneRet)
    ELSE IF c.value.kind = "None" THEN Out(R, I, k, "AttributeError", NoneRet)
    ELSE Out(R, I, k, "none", DatasetInfo(c.value.info, c.value.info.project_id))

SlyBackend_delete_dataset(R, I, dataset_id, f) ==
    LET c == api_dataset_remove(R, dataset_id, f = 1)
        k == <<VCall("dataset.remove", c.raised)>>
    IN
    IF c.raised THEN Out(R, I, k, "VendorError", NoneRet)
    ELSE Out(c.remote, I, k, "none", NoneRet)

\* create_entity: `return LabelInfo()`.  LabelInfo declares `id: int` and
\* `geometry` without defaults, so building it with no fields is refused by
\* the record's validation; no vendor call is made.
SlyBackend_create_entity(R, I) ==
    Out(R, I, <<>>, "PydanticValidationError", NoneRet)

(***************************************************************************)
(* upload_image / upload_images                                            *)
(***************************************************************************)
\* bool(x) of a str or None.
Truthy(x) == x \notin {"None", ""}

\* bool(np) of an ndarray or None: numpy refuses the truth value of an array
\* of several elements with ValueError.  (An empty array is False or, on
\* recent numpy, the same ValueError; either way line 498/499 ends in
\* ValueError.)
ArrayBool(np) ==
    CASE np \in {"None", "empty"} -> "False"
      [] np = "one1" -> "True"
      [] np = "many" -> "ValueError"

\* Mutant: the sources are tested with `is None` instead of their truth
\* value, so an empty string counts as a source.
NoSource_isNone(path, link, np) ==
    IF path # "None" \/ link # "None" THEN "False"
    ELSE CASE ArrayBool(np) = "True" -> "False"
           [] ArrayBool(np) = "False" -> "True"
           [] OTHER -> "ValueError"

\* `not (path or link or np)`: "or" answers its first truthy operand and
\* only then is `not` applied to it.
NoSource(path, link, np) ==
    IF Truthy(path) \/ Truthy(link) THEN "False"
    ELSE CASE ArrayBool(np) = "True" -> "False"
           [] ArrayBool(np) = "False" -> "True"
           [] OTHER -> "ValueError"

\* Mutant: the link is tried before the path.
UploadMethod_linkFirst(path, link) ==
    IF Truthy(link) THEN "upload_link"
    ELSE IF Truthy(path) THEN "upload_path"
    ELSE "upload_np"

\* if path: ... elif link: ... else: ...
UploadMethod(path, link) ==
    IF Truthy(path) THEN "upload_path"
    ELSE IF Truthy(link) THEN "upload_link"
    ELSE "upload_np"

\* bool(list) of a list or None.
ListTruthy(l) == l.given /\ Len(l.items) > 0

NoSources(paths, links, ndarrays) ==
    ~(ListTruthy(paths) \/ ListTruthy(links) \/ ListTruthy(ndarrays))

BatchUploadMethod(paths, links) ==
    IF ListTruthy(paths) THEN "upload_paths"
    ELSE IF ListTruthy(links) THEN "upload_links"
    ELSE "upload_nps"

\* antypes ImageInfo: `url: str` is a required str, so url=None is refused
\* by the record's validation.
ImageInfo(id, name, url) == [kind |-> "ImageInfo", id |-> id, name |-> name, url |-> url]

\* `vlink` is the link field of the vendor's answer to upload_path and
\* upload_np; upload_link answers with the link it was given.
SlyBackend_upload_image(R, I, dataset_id, name, path, link, np, vlink, f) ==
    LET chk == NoSource(path, link, np)
        m == UploadMethod(path, link)
        c == api_image_upload(R, dataset_id, name,
                              IF m = "upload_link" THEN link ELSE vlink, f = 1)
        k == <<VCall("image." \o m, c.raised)>>
    IN
    IF chk # "False" THEN Out(R, I, <<>>, "ValueError", NoneRet)
    ELSE IF c.raised THEN Out(R, I, k, "VendorError", NoneRet)
    ELSE IF c.value.link = "None"
    THEN Out(c.remote, I, k, "PydanticValidationError", NoneRet)
    ELSE Out(c.remote, I, k, "none", ImageInfo(c.value.id, c.value.name, c.value.link))

SlyBackend_upload_images(R, I, dataset_id, names, paths, links, ndarrays, f) ==
    LET m == BatchUploadMethod(paths, links)
        c == api_image_upload_batch(R, dataset_id, names, f = 1)
        k == <<VCall("image." \o m, c.raised)>>
    IN
    IF NoSources(paths, links, ndarrays) THEN Out(R, I, <<>>, "ValueError", NoneRet)
    ELSE IF c.raised THEN Out(R, I, k, "VendorError", NoneRet)
    ELSE Out(c.remote, I, k, "none",
             [kind |-> "list[ImageInfo]",
              items |-> [i \in 1..Len(c.value) |->
                            ImageInfo(c.value[i].id, c.value[i].name, "storage")]])

\* list_projects(self, kwargs).  `strict`: the record validation in use
\* treats ProjectInfo's `meta` (declared without a default) as required.
SlyBackend_list_projects(R, I, strict, f) ==
    LET k == <<VCall("project.get_list_all", f = 1)>> IN
    IF f = 1 THEN Out(R, I, k, "VendorError", NoneRet)
    ELSE IF strict /\ R.projects # {}
    THEN Out(R, I, k, "PydanticValidationError", NoneRet)
    ELSE Out(R, I, k, "none",
             [kind |-> "list[ProjectInfo]",
              items |-> {ProjectInfo(p.id, p.name, p.description, p.type, NoClasses)
                         : p \in R.projects}])

(***************************************************************************)
(* Classes and call binding                                                *)
(***************************************************************************)
\* interfaces/main.py: the operations IAnnotationBackend declares abstract.
AbstractMethods ==
    {"create_project", "update_project", "list_projects", "get_project",
     "delete_project", "create_dataset", "update_dataset", "list_datasets",
     "list_all_datasets", "get_dataset", "delete_dataset", "upload_image",
     "upload_images", "create_label", "create_labels", "create_annotation",
     "upload_annotation", "list_annotations", "upload_annotations",
     "download_annotations"}

Sig(pos, kwonly, required) == [pos |-> pos, kwonly |-> kwonly, required |-> required]

\* backends/sly.py: the methods SlyBackend defines, each with its positional
\* parameters in order, its keyword-only parameters and the parameters that
\* have no default.
SlyBackendSig ==
    ("create_dataset" :> Sig(<<"project_id", "name", "description">>, {}, {"project_id", "name"}))
 @@ ("update_dataset" :> Sig(<<"dataset_id", "name", "description">>, {}, {"dataset_id", "name"}))
 @@ ("list_datasets" :> Sig(<<"proj_id">>, {}, {"proj_id"}))
 @@ ("list_all_datasets" :> Sig(<<>>, {}, {}))
 @@ ("get_dataset" :> Sig(<<"dataset_id">>, {}, {"dataset_id"}))
 @@ ("delete_dataset" :> Sig(<<"dataset_id">>, {}, {"dataset_id"}))
 @@ ("create_project" :>
        Sig(<<"name", "description", "project_type", "classes", "tags">>, {}, {"name"}))
 @@ ("get_project" :> Sig(<<"proj_id">>, {}, {"proj_id"}))
 @@ ("update_project" :>
        Sig(<<"project_id", "name", "description", "classes", "project_type", "tags">>,
            {}, {"project_id"}))
 @@ ("list_projects" :> Sig(<<"kwargs">>, {}, {"kwargs"}))
 @@ ("delete_project" :> Sig(<<"proj_id">>, {}, {"proj_id"}))
 @@ ("upload_image" :>
        Sig(<<>>, {"dataset_id", "name", "path", "link", "np"}, {"dataset_id", "name"}))
 @@ ("upload_images" :>
        Sig(<<>>, {"dataset_id", "names", "paths", "links", "ndarrays"},
            {"dataset_id", "names"}))
 @@ ("create_entity" :>
        Sig(<<"geometry", "obj_class", "text", "tags">>, {}, {"geometry", "obj_class"}))
 @@ ("create_entities" :> Sig(<<"kwargs">>, {}, {"kwargs"}))
 @@ ("download_annotation" :> Sig(<<"img_id">>, {}, {"img_id"}))
 @@ ("download_annotations" :> Sig(<<"dataset_id">>, {}, {"dataset_id"}))
 @@ ("create_classes" :> Sig(<<"classes">>, {}, {"classes"}))

SlyBackendMethods == DOMAIN SlyBackendSig

Range(q) == {q[i] : i \in 1..Len(q)}

\* A call site of a facade: the adapter attribute it looks up, the facade
\* arguments it passes positionally, in order, and those it passes by keyword.
Site(target, pos, kw) == [target |-> target, pos |-> pos, kw |-> kw]

\* Python's binding of a call to a method of the client: AttributeError for
\* an attribute the client lacks, TypeError for arguments the signature does
\* not take or lacks.
Bind(site) ==
    IF site.target \notin SlyBackendMethods THEN "AttributeError"
    ELSE LET sg == SlyBackendSig[site.target]
             n == Len(site.pos)
             byPos == {sg.pos[i] : i \in 1..(IF n <= Len(sg.pos) THEN n ELSE Len(sg.pos))}
         IN IF n > Len(sg.pos) THEN "TypeError"
            ELSE IF \E k \in site.kw : k \notin Range(sg.pos) \cup sg.kwonly THEN "TypeError"
            ELSE IF site.kw \cap byPos # {} THEN "TypeError"
            ELSE IF \E r \in sg.required : r \notin byPos \cup site.kw THEN "TypeError"
            ELSE "ok"

\* The value each adapter parameter receives from a bound call; a parameter
\* the call leaves out keeps its default.
Received(site, args, defaults) ==
    LET sg == SlyBackendSig[site.target] IN
    [p \in DOMAIN defaults |->
        IF \E i \in 1..Len(site.pos) : i <= Len(sg.pos) /\ sg.pos[i] = p
        THEN args[site.pos[CHOOSE i \in 1..Len(site.pos) : sg.pos[i] = p]]
        ELSE IF p \in site.kw THEN args[p]
        ELSE defaults[p]]

(***************************************************************************)
(* Construction                                                            *)
(***************************************************************************)
NoInstance ==
    [live |-> FALSE, current_project_id |-> 0, current_dataset_id |-> 0,
     has_name |-> FALSE, user |-> "None"]

\* The methods a class defines: the two adapters as written, and a subclass
\* of SlyBackend that defines every operation SlyBackend leaves abstract.
Classes == {"SlyBackend", "RoboFlowBackend", "CompleteSlyBackend"}

\* backends/roboflow.py: RoboFlowBackend defines create_project and
\* upload_image.
MethodsOf(cls) ==
    CASE cls = "SlyBackend" -> SlyBackendMethods
      [] cls = "RoboFlowBackend" -> {"create_project", "upload_image"}
      [] cls = "CompleteSlyBackend" -> SlyBackendMethods \cup AbstractMethods

\* SlyBackend.__init__: the workspace lookup (first team, first workspace),
\* the user lookup over HTTP answering `status`, and the log line that reads
\* self.user.email.  IAnnotationBackend.__init__ is not called, so the
\* instance gets no `name`.
SlyBackend___init__(R, I, status, f) ==
    LET k1 == <<VCall("team.get_list", f = 1)>>
        k2 == k1 \o <<VCall("workspace.get_list", f = 2)>>
        k3 == k2 \o <<VCall("requests.get users.me", f = 3)>>
        user == IF status = 200 THEN "AnnotatorInfo" ELSE "None"
    IN
    IF f = 1 THEN Out(R, I, k1, "VendorError", NoneRet)
    ELSE IF f = 2 THEN Out(R, I, k2, "VendorError", NoneRet)
    ELSE IF f = 3 THEN Out(R, I, k3, "RequestException", NoneRet)
    ELSE IF user = "None" THEN Out(R, I, k3, "AttributeError", NoneRet)
    ELSE Out(R, [NoInstance EXCEPT !.live = TRUE, !.user = user], k3, "none",
             [kind |-> "SlyBackend"])

\* cls(token): a class with abstract methods left undefined cannot be
\* instantiated (TypeError, before __init__ runs).
New(cls, R, I, status, f) ==
    IF AbstractMethods \ MethodsOf(cls) # {}
    THEN Out(R, I, <<>>, "TypeError", NoneRet)
    ELSE SlyBackend___init__(R, I, status, f)

\* main.py / annotator/main.py: the backend enum of each facade, member ->
\* value.
Facades == {"AnnotationTool", "Annotator"}

EnumOf(facade) == IF facade = "AnnotationTool" THEN "AnnotationBackend" ELSE "AnnoationBackend"

EnumMembers == {"SUPERVISELY", "ROBOFLOW", "LABELSTUDIO"}

EnumValue(member) ==
    CASE member = "SUPERVISELY" -> [callable |-> TRUE, v |-> "SlyBackend"]
      [] member = "ROBOFLOW" -> [callable |-> FALSE, v |-> "roboflow"]
      [] member = "LABELSTUDIO" -> [callable |-> FALSE, v |-> "labelstudio"]

\* What a caller may pass as `backend`: a member of either enum, a plain
\* string, None.
BackendArgs ==
    [cls : {"AnnotationBackend", "AnnoationBackend"}, member : EnumMembers]
      \cup {[cls |-> "str", member |-> "supervisely"], [cls |-> "NoneType", member |-> "None"]}

\* Mutant: isinstance is asked of Enum, so a member of any enum passes.
IsBackend_anyEnum(facade, backend) ==
    backend.cls \in {"AnnotationBackend", "AnnoationBackend"}

\* isinstance(backend, <the facade's enum>)
IsBackend(facade, backend) == backend.cls = EnumOf(facade)

\* _create_annotation_backend(backend, token)
_create_annotation_backend(facade, backend, R, I, status, f) ==
    IF ~IsBackend(facade, backend) THEN Out(R, I, <<>>, "ValueError", NoneRet)
    ELSE IF ~EnumValue(backend.member).callable THEN Out(R, I, <<>>, "TypeError", NoneRet)
    ELSE New(EnumValue(backend.member).v, R, I, status, f)

\* The call each facade method makes on self.client.  `kwargs` are the
\* keywords the caller gave to a method that forwards **kwargs.
FacadeSite(facade, method, kwargs) ==
    CASE facade = "Annotator" /\ method = "create_project" ->
            Site("create_project", <<"name", "description", "project_type", "classes">>, {})
      [] facade = "AnnotationTool" /\ method = "create_project" ->
            Site("create_project",
                 <<"name", "description", "project_type", "classes", "images", "source_type">>,
                 {})
      [] facade = "Annotator" /\ method = "get_project" ->
            Site("get_project", <<"project_id">>, {})
      [] facade = "Annotator" /\ method = "list_projects" ->
            Site("list_projects", <<>>, {})
      [] facade = "Annotator" /\ method = "create_dataset" ->
            Site("create_dataset", <<"project_id">>, kwargs)
      [] facade = "AnnotationTool" /\ method = "create_dataset" ->
            Site("create_dataset", <<"project_id", "name", "description">>, {})
      [] facade = "Annotator" /\ method = "upload_image" ->
            Site("upload_image", <<"dataset_id", "name", "path", "link", "np">>, {})
      [] facade = "Annotator" /\ method = "upload_images" ->
            Site("upload_image_batch", <<"dataset_id", "names", "paths", "links", "np">>, {})

(***************************************************************************)
(* The state machine                                                       *)
(***************************************************************************)
NoCall ==
    [via |-> "none", op |-> "none", target |-> "none", bind |-> "ok", args |-> <<>>,
     calls |-> <<>>, exc |-> "none", ret |-> NoneRet]

Init ==
    /\ remote = EmptyRemote
    /\ inst = NoInstance
    /\ last = NoCall

\* A call that reached the adapter operation `target` and ended as `o`.
Do(via, op, target, args, o) ==
    /\ remote' = o.remote
    /\ inst' = o.inst
    /\ last' = [via |-> via, op |-> op, target |-> target, bind |-> "ok", args |-> args,
                calls |-> o.calls, exc |-> o.exc, ret |-> o.ret]

\* A facade call whose call on self.client could not be bound.
FacadeRaise(via, op, target, args, exc) ==
    /\ UNCHANGED <<remote, inst>>
    /\ last' = [via |-> via, op |-> op, target |-> target, bind |-> exc, args |-> args,
                calls |-> <<>>, exc |-> exc, ret |-> NoneRet]

ImgName == Name("i")

\* AnnotationTool(backend, token) / Annotator(backend, token)
\* The platform is involved only once the backend's value is called.
Facade_init ==
    \E facade \in Facades, backend \in BackendArgs :
        \E status \in IF IsBackend(facade, backend) THEN {200, 401} ELSE {200},
           f \in IF IsBackend(facade, backend) THEN 0..3 ELSE {0} :
            Do(facade, "__init__", "__init__", [backend |-> backend],
               _create_annotation_backend(facade, backend, remote, inst, status, f))

\* cls(token) for a backend class.
Adapter_new ==
    \E cls \in Classes, status \in {200, 401}, f \in 0..3 :
        Do("SlyBackend", "__new__", "__init__", [cls |-> cls, status |-> status],
           New(cls, remote, inst, status, f))

\* create_project on the live instance, its arguments drawn from `pargs`
\* and `cargs`, the failing vendor call from `fs`.
CreateProject(pargs, cargs, fs) ==
    /\ inst.live
    /\ \E a \in pargs, classes \in cargs, f \in fs :
        Do("SlyBackend", "create_project", "create_project",
           [name |-> a.name, description |-> a.description,
            project_type |-> a.project_type, classes |-> classes],
           SlyBackend_create_project(remote, inst, a.name, a.description,
                                     a.project_type, classes, f))

Adapter_create_project == CreateProject(ProjectArgs, ClassesArgs, 0..3)

\* The same for one plain project (a name, a description, IMAGES, an empty
\* class list) with the platform answering every call.
Adapter_create_project_example ==
    CreateProject({[name |-> Name("P"), description |-> "d", project_type |-> "IMAGES"]},
                  {[given |-> TRUE, items |-> <<>>]}, {0})

Adapter_get_project ==
    /\ inst.live
    /\ \E proj_id \in ProjectIdArgs, f \in 0..1 :
        Do("SlyBackend", "get_project", "get_project", [project_id |-> proj_id],
           SlyBackend_get_project(remote, inst, proj_id, f))

Adapter_list_projects ==
    /\ inst.live
    /\ \E strict \in BOOLEAN, f \in 0..1 :
        Do("SlyBackend", "list_projects", "list_projects", <<>>,
           SlyBackend_list_projects(remote, inst, strict, f))

\* create_dataset on the live instance, name and description drawn from
\* `dargs`.
CreateDataset(dargs) ==
    /\ inst.live
    /\ \E project_id \in ProjectIdArgs, a \in dargs, f \in 0..1 :
        Do("SlyBackend", "create_dataset", "create_dataset",
           [project_id |-> project_id, name |-> a.name, description |-> a.description],
           SlyBackend_create_dataset(remote, inst, project_id, a.name, a.description, f))

Adapter_create_dataset == CreateDataset(DatasetArgs)

\* The same for one plain dataset.
Adapter_create_dataset_plain == CreateDataset({[name |-> Name("P"), description |-> "d"]})

Adapter_upload_image ==
    /\ inst.live
    /\ \E dataset_id \in DatasetIdArgs, path \in PathArgs, link \in LinkArgs, np \in NpArgs,
          vlink \in {"None", "u"}, f \in 0..1 :
        Do("SlyBackend", "upload_image", "upload_image",
           [dataset_id |-> dataset_id, name |-> ImgName, path |-> path,
            link |-> link, np |-> np],
           SlyBackend_upload_image(remote, inst, dataset_id, ImgName, path, link, np,
                                   vlink, f))

Adapter_upload_images ==
    /\ inst.live
    /\ \E dataset_id \in DatasetIdArgs, paths \in ListArgs("p"), links \in ListArgs("l"),
          ndarrays \in ListArgs("many"), f \in 0..1 :
        Do("SlyBackend", "upload_images", "upload_images",
           [dataset_id |-> dataset_id, names |-> <<ImgName>>, paths |-> paths,
            links |-> links, np |-> ndarrays],
           SlyBackend_upload_images(remote, inst, dataset_id, <<ImgName>>, paths, links,
                                    ndarrays, f))

\* What another client of the same platform left there: a project with one
\* dataset, numbered outside the ids this adapter's own projects get.
ForeignProjectId == MaxProjects + 1

ForeignDatasetId == MaxDatasets + 1

SharedRemote ==
    [EmptyRemote EXCEPT
        !.projects = {[id |-> ForeignProjectId, name |-> Name("X"), description |-> "x",
                       type |-> "images", meta |-> <<>>]},
        !.datasets = {[id |-> ForeignDatasetId, name |-> Name("X"), description |-> "x",
                       project_id |-> ForeignProjectId]}]

InitShared ==
    /\ remote = SharedRemote
    /\ inst = NoInstance
    /\ last = NoCall

\* The same with the other client's project and dataset carrying the name
\* "P", the one this adapter's callers ask for.
TakenRemote ==
    [SharedRemote EXCEPT
        !.projects = {[p EXCEPT !.name = Name("P")] : p \in @},
        !.datasets = {[d EXCEPT !.name = Name("P")] : d \in @}]

InitTaken ==
    /\ remote = TakenRemote
    /\ inst = NoInstance
    /\ last = NoCall

\* The other client goes on working on the platform: it renames a project or
\* removes a dataset, through the same vendor calls.
Other_client ==
    /\ inst' = inst
    /\ \/ \E p \in remote.projects :
            LET c == api_project_update(remote, p.id, Name("Q"), "e", FALSE) IN
            /\ ~c.raised
            /\ remote' = c.remote
            /\ last' = [NoCall EXCEPT !.via = "other", !.op = "update_project",
                                      !.args = [project_id |-> p.id]]
       \/ \E d \in remote.datasets :
            /\ remote' = api_dataset_remove(remote, d.id, FALSE).remote
            /\ last' = [NoCall EXCEPT !.via = "other", !.op = "delete_dataset",
                                      !.args = [dataset_id |-> d.id]]

\* create_project for one plain project, any of its vendor calls failing.
Adapter_create_project_plain ==
    CreateProject({[name |-> Name("P"), description |-> "d", project_type |-> "IMAGES"]},
                  {[given |-> TRUE, items |-> <<>>]}, 0..3)

\* What callers pass to the update operations; project_type as the member
\* of ProjectType the signature asks for, or as a plain string.
UpdateArgs == {[name |-> Name("Q"), description |-> "e"]}

UpdateTypeArgs == {"IMAGES", "images"}

UpdateClassesArgs == {NoClasses, [given |-> TRUE, items |-> <<>>]}

Adapter_update_project ==
    /\ inst.live
    /\ \E project_id \in ProjectIdArgs, a \in UpdateArgs, classes \in UpdateClassesArgs,
          project_type \in UpdateTypeArgs, f \in 0..2 :
        Do("SlyBackend", "update_project", "update_project",
           [project_id |-> project_id, name |-> a.name, description |-> a.description,
            classes |-> classes, project_type |-> project_type],
           SlyBackend_update_project(remote, inst, project_id, a.name, a.description,
                                     classes, project_type, f))

Adapter_delete_project ==
    /\ inst.live
    /\ \E proj_id \in ProjectIdArgs, f \in 0..1 :
        Do("SlyBackend", "delete_project", "delete_project", [project_id |-> proj_id],
           SlyBackend_delete_project(remote, inst, proj_id, f))

Adapter_update_dataset ==
    /\ inst.live
    /\ \E dataset_id \in DatasetIdArgs, a \in UpdateArgs, f \in 0..1 :
        Do("SlyBackend", "update_dataset", "update_dataset",
           [dataset_id |-> dataset_id, name |-> a.name, description |-> a.description],
           SlyBackend_update_dataset(remote, inst, dataset_id, a.name, a.description, f))

Adapter_list_datasets ==
    /\ inst.live
    /\ \E proj_id \in ProjectIdArgs, f \in 0..1 :
        Do("SlyBackend", "list_datasets", "list_datasets", [project_id |-> proj_id],
           SlyBackend_list_datasets(remote, inst, proj_id, f))

Adapter_list_all_datasets ==
    /\ inst.live
    /\ \E f \in 0..1 :
        Do("SlyBackend", "list_all_datasets", "list_all_datasets", <<>>,
           SlyBackend_list_all_datasets(remote, inst, f))

Adapter_get_dataset ==
    /\ inst.live
    /\ \E dataset_id \in DatasetIdArgs, f \in 0..1 :
        Do("SlyBackend", "get_dataset", "get_dataset", [dataset_id |-> dataset_id],
           SlyBackend_get_dataset(remote, inst, dataset_id, f))

Adapter_delete_dataset ==
    /\ inst.live
    /\ \E dataset_id \in DatasetIdArgs, f \in 0..1 :
        Do("SlyBackend", "delete_dataset", "delete_dataset", [dataset_id |-> dataset_id],
           SlyBackend_delete_dataset(remote, inst, dataset_id, f))

Adapter_create_entity ==
    /\ inst.live
    /\ Do("SlyBackend", "create_entity", "create_entity", <<>>,
          SlyBackend_create_entity(remote, inst))

(***************************************************************************)
(* The facades: every method is `return self.client.<target>(...)`.        *)
(* The methods are taken on a facade whose client is the live instance.    *)
(***************************************************************************)
\* The defaults of the adapter's parameters (a parameter without one is
\* always bound, its entry is never read).
Defaults(target) ==
    CASE target = "create_project" ->
            [name |-> Name(""), description |-> "", project_type |-> "IMAGES",
             classes |-> NoClasses, tags |-> "None"]
      [] target = "get_project" -> [proj_id |-> 0]
      [] target = "list_projects" -> [kwargs |-> "None"]
      [] target = "create_dataset" -> [project_id |-> 0, name |-> Name(""), description |-> ""]
      [] target = "upload_image" ->
            [dataset_id |-> 0, name |-> Name(""), path |-> "None", link |-> "None",
             np |-> "None"]
      [] target = "upload_images" ->
            [dataset_id |-> 0, names |-> <<>>, paths |-> NoList, links |-> NoList,
             ndarrays |-> NoList]

\* self.client.<target>(...) once the call is bound: r holds the value of
\* each parameter, env what the platform does during the call.
Invoke(target, r, env) ==
    CASE target = "create_project" ->
            SlyBackend_create_project(remote, inst, r.name, r.description,
                                      r.project_type, r.classes, env.f)
      [] target = "get_project" -> SlyBackend_get_project(remote, inst, r.proj_id, env.f)
      [] target = "list_projects" ->
            SlyBackend_list_projects(remote, inst, env.strict, env.f)
      [] target = "create_dataset" ->
            SlyBackend_create_dataset(remote, inst, r.project_id, r.name, r.description,
                                      env.f)
      [] target = "upload_image" ->
            SlyBackend_upload_image(remote, inst, r.dataset_id, r.name, r.path, r.link,
                                    r.np, env.vlink, env.f)
      [] target = "upload_images" ->
            SlyBackend_upload_images(remote, inst, r.dataset_id, r.names, r.paths,
                                     r.links, r.ndarrays, env.f)

\* `envs`: what the platform may do during the call.
Forward(facade, method, kwargs, args, envs) ==
    LET site == FacadeSite(facade, method, kwargs) IN
    IF Bind(site) # "ok"
    THEN FacadeRaise(facade, method, site.target, args, Bind(site))
    ELSE \E env \in envs :
            Do(facade, method, site.target, args,
               Invoke(site.target, Received(site, args, Defaults(site.target)), env))

\* The arguments the facade methods are called with (a facade only passes
\* them on).
FacadeProjectArgs == {[name |-> Name("P"), description |-> "d", project_type |-> "VIDEOS"]}

FacadeClassesArgs == {NoClasses, [given |-> TRUE, items |-> <<>>]}

\* What the platform may do during one call: which vendor call raises, how
\* strict the record validation is, the link field of an upload's answer.
Env(maxf, stricts, vlinks) == [f : 0..maxf, strict : stricts, vlink : vlinks]

Annotator_create_project ==
    /\ inst.live
    /\ \E a \in FacadeProjectArgs, classes \in FacadeClassesArgs :
        Forward("Annotator", "create_project", {},
                [name |-> a.name, description |-> a.description,
                 project_type |-> a.project_type, classes |-> classes],
                Env(3, {FALSE}, {"None"}))

AnnotationTool_create_project ==
    /\ inst.live
    /\ \E a \in FacadeProjectArgs, classes \in FacadeClassesArgs :
        Forward("AnnotationTool", "create_project", {},
                [name |-> a.name, description |-> a.description,
                 project_type |-> a.project_type, classes |-> classes,
                 images |-> "None", source_type |-> "None"],
                Env(3, {FALSE}, {"None"}))

Annotator_get_project ==
    /\ inst.live
    /\ \E project_id \in ProjectIdArgs :
        Forward("Annotator", "get_project", {}, [project_id |-> project_id],
                Env(1, {FALSE}, {"None"}))

Annotator_list_projects ==
    /\ inst.live
    /\ Forward("Annotator", "list_projects", {}, <<>>, Env(1, BOOLEAN, {"None"}))

Annotator_create_dataset ==
    /\ inst.live
    /\ \E project_id \in ProjectIdArgs, a \in DatasetArgs :
        Forward("Annotator", "create_dataset", {"name", "description"},
                [project_id |-> project_id, name |-> a.name,
                 description |-> a.description],
                Env(1, {FALSE}, {"None"}))

AnnotationTool_create_dataset ==
    /\ inst.live
    /\ \E project_id \in ProjectIdArgs, a \in DatasetArgs :
        Forward("AnnotationTool", "create_dataset", {},
                [project_id |-> project_id, name |-> a.name,
                 description |-> a.description],
                Env(1, {FALSE}, {"None"}))

Annotator_upload_image ==
    /\ inst.live
    /\ \E dataset_id \in DatasetIdArgs, path \in {"None", "p"}, link \in {"None", "l"},
          np \in {"None"} :
        Forward("Annotator", "upload_image", {},
                [dataset_id |-> dataset_id, name |-> ImgName, path |-> path,
                 link |-> link, np |-> np],
                Env(1, {FALSE}, {"None", "u"}))

Annotator_upload_images ==
    /\ inst.live
    /\ \E dataset_id \in DatasetIdArgs, paths \in ListArgs("p") :
        Forward("Annotator", "upload_images", {},
                [dataset_id |-> dataset_id, names |-> <<ImgName>>, paths |-> paths,
                 links |-> NoList, np |-> NoList],
                Env(1, {FALSE}, {"None"}))

(***************************************************************************)
(* Specifications.  Spec takes every operation.  The operations are        *)
(* checked by family, each family from the same initial state: the         *)
(* facades, the project and dataset operations of the adapter, and its     *)
(* upload operations (on the datasets that create_project makes).          *)
(***************************************************************************)
NextFacade ==
    \/ Facade_init
    \/ Adapter_new
    \/ Annotator_create_project
    \/ AnnotationTool_create_project
    \/ Annotator_get_project
    \/ Annotator_list_projects
    \/ Annotator_create_dataset
    \/ AnnotationTool_create_dataset
    \/ Annotator_upload_image
    \/ Annotator_upload_images

NextProject ==
    \/ Adapter_new
    \/ Adapter_create_project
    \/ Adapter_get_project
    \/ Adapter_list_projects
    \/ Adapter_create_dataset

NextUpload ==
    \/ Adapter_new
    \/ Adapter_create_project_example
    \/ Adapter_upload_image
    \/ Adapter_upload_images

NextCrud ==
    \/ Adapter_new
    \/ Adapter_create_project_plain
    \/ Adapter_get_project
    \/ Adapter_update_project
    \/ Adapter_list_projects
    \/ Adapter_delete_project
    \/ Adapter_create_dataset_plain
    \/ Adapter_update_dataset
    \/ Adapter_list_datasets
    \/ Adapter_list_all_datasets
    \/ Adapter_get_dataset
    \/ Adapter_delete_dataset
    \/ Adapter_create_entity

NextRead ==
    \/ Adapter_new
    \/ Adapter_create_project_example
    \/ Adapter_get_project
    \/ Adapter_list_projects
    \/ Adapter_list_datasets
    \/ Adapter_list_all_datasets
    \/ Adapter_get_dataset
    \/ Other_client

NextNames ==
    \/ Adapter_new
    \/ Adapter_create_project_example
    \/ Adapter_create_dataset_plain
    \/ Adapter_get_project
    \/ Adapter_get_dataset

Next == NextFacade \/ NextProject \/ NextUpload \/ NextCrud \/ NextRead \/ NextNames

Spec == Init /\ [][Next]_vars

SpecFacade == Init /\ [][NextFacade]_vars

SpecProject == Init /\ [][NextProject]_vars

SpecUpload == Init /\ [][NextUpload]_vars

\* Every project and dataset operation of the adapter.
SpecCrud == Init /\ [][NextCrud]_vars

\* The read operations on a platform that another client uses too.
SpecRead == InitShared /\ [][NextRead]_vars

\* Creation and reading on a platform where the requested names are taken.
SpecNames == InitTaken /\ [][NextNames]_vars

(***************************************************************************)
(* Claims                                                                  *)
(***************************************************************************)
FacadeConstruction == last.op = "__init__" /\ last.via \in Facades

NoVendorFailure == \A i \in 1..Len(last.calls) : ~last.calls[i].raised

C2_EveryMemberConstructs ==
    (FacadeConstruction /\ last.args.backend.cls = EnumOf(last.via) /\ NoVendorFailure)
        => /\ last.exc = "none"
           /\ last.ret.kind = "SlyBackend"
           /\ inst.has_name

\* C3 (as claimed): every facade method ends in one call of the same-named
\* operation of the adapter, and raises only what the adapter raises.
C3_FacadeForwards ==
    (last.via \in Facades /\ last.op # "__init__")
        => /\ last.bind = "ok"
           /\ last.target = last.op

IsUpload == last.via = "SlyBackend" /\ last.op \in {"upload_image", "upload_images"}

\* A source that is there: a non-empty string, an array with elements, a
\* non-empty list.
UsableStr(x) == x \notin {"None", ""}

UsableArray(x) == x \notin {"None", "empty"}

UsableList(l) == l.given /\ l.items # <<>>

\* C4 (as claimed): with at least one source supplied, exactly one vendor
\* upload call is made: the path upload if a path is supplied, else the link
\* upload if a link is supplied, else the array upload.
C4_UploadPriority ==
    /\ (IsUpload /\ last.op = "upload_image"
          /\ (UsableStr(last.args.path) \/ UsableStr(last.args.link)
                \/ UsableArray(last.args.np)))
        => /\ Len(last.calls) = 1
           /\ last.calls[1].name =
                (IF UsableStr(last.args.path) THEN "image.upload_path"
                 ELSE IF UsableStr(last.args.link) THEN "image.upload_link"
                 ELSE "image.upload_np")
    /\ (IsUpload /\ last.op = "upload_images"
          /\ (UsableList(last.args.paths) \/ UsableList(last.args.links)
                \/ UsableList(last.args.np)))
        => /\ Len(last.calls) = 1
           /\ last.calls[1].name =
                (IF UsableList(last.args.paths) THEN "image.upload_paths"
                 ELSE IF UsableList(last.args.links) THEN "image.upload_links"
                 ELSE "image.upload_nps")

SuppliedSources ==
    Cardinality({k \in {"path", "link", "np"} : last.args[k] # "None"})

NoUsableSource(l) ==
    /\ l.via = "SlyBackend"
    /\ \/ /\ l.op = "upload_image"
          /\ ~UsableStr(l.args.path) /\ ~UsableStr(l.args.link)
          /\ ~UsableArray(l.args.np)
       \/ /\ l.op = "upload_images"
          /\ ~UsableList(l.args.paths) /\ ~UsableList(l.args.links)
          /\ ~UsableList(l.args.np)

\* C6: upload_image and upload_images raise ValueError when no path, link
\* or array is usable (absent or empty); no vendor call is made and the
\* remote state is unchanged.
C6_NoSourceValueError ==
    [][NoUsableSource(last')
         => /\ last'.exc = "ValueError"
            /\ last'.calls = <<>>
            /\ remote' = remote]_vars

C6_Witness ==
    /\ NoUsableSource(last)
    /\ last.op = "upload_image"
    /\ last.args.path = "" /\ last.args.np = "empty"
    /\ last.exc = "ValueError"
    /\ remote.datasets # {}

IsAdapterCall(l, op) == l.via = "SlyBackend" /\ l.op = op

\* C7 (as claimed): create_project(name, description, project_type,
\* classes=None) succeeds and returns a ProjectInfo with that name,
\* description and type.
C7_CreateWithoutClassesSucceeds ==
    (IsAdapterCall(last, "create_project") /\ ~last.args.classes.given /\ NoVendorFailure)
        => /\ last.exc = "none"
           /\ last.ret.kind = "ProjectInfo"
           /\ last.ret.name.base = last.args.name.base
           /\ last.ret.description = last.args.description

\* C8 (as claimed): create_project with an empty name fails with
\* ValidationError and creates no project and no dataset.
C8_EmptyNameValidationError ==
    (IsAdapterCall(last, "create_project") /\ last.args.name.base = "")
        => /\ last.exc = "ValidationError"
           /\ \A i \in 1..Len(last.calls) : last.calls[i].raised

\* C8 (amended): create_project with an empty name raises no
\* ValidationError and checks nothing itself: its first step is the vendor's
\* project.create with that name, and a project is created exactly when that
\* call succeeds.
C8_EmptyNameGoesToVendor ==
    [][(IsAdapterCall(last', "create_project") /\ last'.args.name.base = "")
         => /\ last'.exc # "ValidationError"
            /\ Len(last'.calls) >= 1
            /\ last'.calls[1].name = "project.create"
            /\ (remote'.projects # remote.projects) <=> ~last'.calls[1].raised]_vars

C8_Witness ==
    /\ IsAdapterCall(last, "create_project")
    /\ last.args.name.base = ""
    /\ last.exc = "none"
    /\ \E p \in remote.projects : p.name.base = ""
    /\ \E d \in remote.datasets : d.name.base = ""

\* C9 (as claimed): create_dataset with a project_id of no existing project
\* fails with the library's NotFoundError.
C9_UnknownProjectNotFoundError ==
    (IsAdapterCall(last, "create_dataset") /\ last.args.project_id \notin ProjectIds(remote))
        => last.exc = "NotFoundError"

\* C9 (amended): create_dataset with a project_id of no existing project
\* fails with the vendor's exception, which reaches the caller as it is (the
\* library has no NotFoundError), and creates no dataset.
C9_UnknownProjectVendorError ==
    [][(IsAdapterCall(last', "create_dataset")
          /\ last'.args.project_id \notin ProjectIds(remote))
         => /\ last'.exc = "VendorError"
            /\ last'.calls = <<VCall("dataset.create", TRUE)>>
            /\ remote' = remote]_vars

C9_Witness ==
    /\ IsAdapterCall(last, "create_dataset")
    /\ remote.projects # {}
    /\ last.args.project_id \notin ProjectIds(remote)
    /\ last.exc = "VendorError"

\* The exception a raising call raises: the vendor SDK's, or that of the
\* HTTP library for the one direct request.
RaisedBy(name) == IF name = "requests.get users.me" THEN "RequestException" ELSE "VendorError"

IsRead == last.via = "SlyBackend"
            /\ last.op \in {"get_project", "get_dataset", "list_projects",
                             "list_datasets", "list_all_datasets"}

\* What the platform holds now, as the records the reads build from it.
ProjectRecord(p) == ProjectInfo(p.id, p.name, p.description, p.type, NoClasses)

DatasetRecord(d) == DatasetInfo(d, d.project_id)

\* C11: the library holds no cache: every get_* and list_* call issues one
\* vendor read of its own, and what it returns is the state of the platform
\* at the time of the call, whatever this adapter or another client did
\* before.
C11_ReadsAreFresh ==
    IsRead
        => /\ Len(last.calls) = 1
           /\ last.exc = "none" =>
                CASE last.op = "get_project" ->
                        /\ last.args.project_id \in ProjectIds(remote)
                        /\ last.ret = ProjectRecord(ProjectOf(remote, last.args.project_id))
                  [] last.op = "get_dataset" ->
                        /\ last.args.dataset_id \in DatasetIds(remote)
                        /\ last.ret = DatasetRecord(DatasetOf(remote, last.args.dataset_id))
                  [] last.op = "list_projects" ->
                        last.ret.items = {ProjectRecord(p) : p \in remote.projects}
                  [] last.op = "list_datasets" ->
                        last.ret.items =
                            {DatasetRecord(d) :
                                d \in {x \in remote.datasets :
                                          x.project_id = last.args.project_id}}
                  [] last.op = "list_all_datasets" ->
                        last.ret.items = {DatasetRecord(d) : d \in remote.datasets}

\* get_project on the project this adapter created as "P", after another
\* client renamed it.
C11_Witness ==
    /\ IsAdapterCall(last, "get_project")
    /\ last.exc = "none"
    /\ inst.current_project_id = last.args.project_id
    /\ last.ret.name = Name("Q")

\* The projects and datasets of R that S does not have; what S and R both
\* have is the same in both; R has everything S has.
NewProjects(S, R) == {p \in R.projects : p.id \notin ProjectIds(S)}

NewDatasets(S, R) == {d \in R.datasets : d.id \notin DatasetIds(S)}

KeptAsIs(S, R) ==
    /\ \A p \in S.projects : p.id \in ProjectIds(R) => p \in R.projects
    /\ \A d \in S.datasets : d.id \in DatasetIds(R) => d \in R.datasets

NothingGone(S, R) ==
    /\ ProjectIds(S) \subseteq ProjectIds(R)
    /\ DatasetIds(S) \subseteq DatasetIds(R)

\* C12 (as claimed): create_project adds no entity other than the project it
\* was asked to create.
C12_CreateProjectAddsOnlyProject ==
    [][IsAdapterCall(last', "create_project")
         => /\ remote'.datasets = remote.datasets
            /\ Cardinality(NewProjects(remote, remote')) <= 1]_vars

\* C12 (amended): entities appear only through create_*, change only through
\* update_* and disappear only through delete_*; get_* and list_* leave the
\* platform unchanged; create_project adds the project it was asked to
\* create and, when it succeeds, one dataset of that project carrying the
\* requested name; delete_project takes the project's datasets with it.
C12_Lifecycle ==
    [][last'.via = "SlyBackend" =>
        CASE last'.op \in {"get_project", "get_dataset", "list_projects", "list_datasets",
                           "list_all_datasets", "create_entity", "__new__"} ->
                remote' = remote
          [] last'.op = "create_project" ->
                /\ NothingGone(remote, remote') /\ KeptAsIs(remote, remote')
                /\ Cardinality(NewProjects(remote, remote')) =
                        (IF last'.calls[1].raised THEN 0 ELSE 1)
                /\ \A d \in NewDatasets(remote, remote') :
                        /\ d.project_id \in {p.id : p \in NewProjects(remote, remote')}
                        /\ d.name.base = last'.args.name.base
                /\ Cardinality(NewDatasets(remote, remote')) <= 1
                /\ last'.exc = "none" => Cardinality(NewDatasets(remote, remote')) = 1
          [] last'.op = "create_dataset" ->
                /\ NothingGone(remote, remote') /\ KeptAsIs(remote, remote')
                /\ remote'.projects = remote.projects
                /\ Cardinality(NewDatasets(remote, remote')) =
                        (IF last'.exc = "none" THEN 1 ELSE 0)
          [] last'.op = "update_project" ->
                /\ ProjectIds(remote') = ProjectIds(remote)
                /\ remote'.datasets = remote.datasets
                /\ \A p \in remote'.projects :
                        p.id # last'.args.project_id => p \in remote.projects
          [] last'.op = "update_dataset" ->
                /\ DatasetIds(remote') = DatasetIds(remote)
                /\ remote'.projects = remote.projects
                /\ \A d \in remote'.datasets :
                        d.id # last'.args.dataset_id => d \in remote.datasets
          [] last'.op = "delete_project" ->
                /\ remote'.projects =
                        (IF last'.exc = "none"
                         THEN {p \in remote.projects : p.id # last'.args.project_id}
                         ELSE remote.projects)
                /\ remote'.datasets =
                        (IF last'.exc = "none"
                         THEN {d \in remote.datasets : d.project_id # last'.args.project_id}
                         ELSE remote.datasets)
          [] last'.op = "delete_dataset" ->
                /\ remote'.projects = remote.projects
                /\ remote'.datasets =
                        (IF last'.exc = "none"
                         THEN {d \in remote.datasets : d.id # last'.args.dataset_id}
                         ELSE remote.datasets)]_vars

\* A create_project that succeeded: the platform has the new project and a
\* dataset of it that no create_dataset call asked for.
C12_Witness ==
    /\ IsAdapterCall(last, "create_project")
    /\ last.exc = "none"
    /\ \E d \in remote.datasets : d.project_id = last.ret.id /\ d.name = last.ret.name
    /\ remote.nextDataset = 2

\* An adapter call that returned an *Info record or a list of them.
ReturnedRecords ==
    IF last.via # "SlyBackend" \/ last.exc # "none" THEN {}
    ELSE IF last.ret.kind \in {"ProjectInfo", "DatasetInfo", "ImageInfo"} THEN {last.ret}
    ELSE IF last.ret.kind \in {"list[ProjectInfo]", "list[DatasetInfo]"} THEN last.ret.items
    ELSE {}

RemoteIds(kind) ==
    CASE kind = "ProjectInfo" -> ProjectIds(remote)
      [] kind = "DatasetInfo" -> DatasetIds(remote)
      [] kind = "ImageInfo" -> {im.id : im \in remote.images}

C14_ConstructionWithoutUser ==
    (IsAdapterCall(last, "__new__") /\ last.args.cls = "CompleteSlyBackend"
       /\ last.args.status # 200 /\ NoVendorFailure)
        => /\ last.exc = "none"
           /\ inst.live
           /\ inst.user = "None"

\* The adapter classes of the library.
AdapterClasses == {"SlyBackend", "RoboFlowBackend"}

\* C15 (as claimed): each adapter class defines every operation that
\* IAnnotationBackend declares abstract, so it can be instantiated.
C15_AdaptersImplementInterface ==
    (IsAdapterCall(last, "__new__") /\ last.args.cls \in AdapterClasses)
        => /\ AbstractMethods \subseteq MethodsOf(last.args.cls)
           /\ last.exc # "TypeError"

\* C16: list_datasets(project_id) returns only datasets of that project:
\* every returned DatasetInfo carries the project_id argument, and that is
\* the project the dataset belongs to on the platform, the one get_dataset
\* and list_all_datasets report for the same dataset id.
C16_ListDatasetsOfProject ==
    (IsAdapterCall(last, "list_datasets") /\ last.exc = "none")
        => \A r \in last.ret.items :
            /\ r.project_id = last.args.project_id
            /\ r.id \in DatasetIds(remote)
            /\ DatasetOf(remote, r.id).project_id = r.project_id
            /\ SlyBackend_get_dataset(remote, inst, r.id, 0).ret.project_id = r.project_id
            /\ \A a \in SlyBackend_list_all_datasets(remote, inst, 0).ret.items :
                    a.id = r.id => a.project_id = r.project_id

\* list_datasets answered with a dataset while the platform also holds a
\* dataset of another project.
C16_Witness ==
    /\ IsAdapterCall(last, "list_datasets")
    /\ last.exc = "none"
    /\ last.ret.items # {}
    /\ \E d \in remote.datasets : d.project_id # last.args.project_id

\* C17 (as claimed): current_project_id and current_dataset_id are None
\* after construction; a successful create_project sets them to the id of
\* the project and of the dataset it created; no other call changes them.
C17_CurrentIdsBookkeeping ==
    [][last'.via = "SlyBackend" =>
        IF last'.op = "__new__" /\ last'.exc = "none"
        THEN inst'.current_project_id = 0 /\ inst'.current_dataset_id = 0
        ELSE IF last'.op = "create_project" /\ last'.exc = "none"
        THEN /\ inst'.current_project_id = last'.ret.id
             /\ inst'.current_dataset_id \in
                    {d.id : d \in {x \in NewDatasets(remote, remote') :
                                      x.project_id = last'.ret.id}}
        ELSE /\ inst'.current_project_id = inst.current_project_id
             /\ inst'.current_dataset_id = inst.current_dataset_id]_vars

\* The adapter that faces the same platform with another history: the one
\* constructed just now, on which no operation has run yet (construction
\* leaves the platform as it is).
Histories ==
    {[inst EXCEPT !.current_project_id = NoInstance.current_project_id,
                  !.current_dataset_id = NoInstance.current_dataset_id]}

\* What a caller and the platform see of a call.
Seen(o) == [remote |-> o.remote, calls |-> o.calls, exc |-> o.exc, ret |-> o.ret]

C19_MappingTablesTotal ==
    (IsAdapterCall(last, "create_project") /\ last.args.classes.given)
        => /\ last.exc # "KeyError"
           /\ DOMAIN project_type_mapping = ProjectType
           /\ DOMAIN SlyClass_geometry_type_mapping = GeometryType
           /\ DOMAIN geometry_type_mapping = GeometryType
           /\ \A g \in GeometryType :
                   geometry_type_mapping[g] = SlyClass_geometry_type_mapping[g]

\* C20 (as claimed): list_projects called with no arguments, as the facade
\* calls it, returns one ProjectInfo for each project of the platform and
\* does not raise.
C20_ListProjectsWithoutArguments ==
    (last.via = "Annotator" /\ last.op = "list_projects" /\ NoVendorFailure)
        => /\ last.exc = "none"
           /\ last.ret.kind = "list[ProjectInfo]"
           /\ last.ret.items = {ProjectRecord(p) : p \in remote.projects}

\* C21 (as claimed): update_project(project_id, name, description) without
\* classes and tags (project_type left at its default) updates the name and
\* the description only: no project-meta update call is made, and it returns
\* a ProjectInfo with that id, name and description.
C21_UpdateNameAndDescriptionOnly ==
    (IsAdapterCall(last, "update_project") /\ ~last.args.classes.given
       /\ last.args.project_type = "IMAGES" /\ NoVendorFailure)
        => /\ last.exc = "none"
           /\ last.calls = <<VCall("project.update", FALSE)>>
           /\ last.ret.kind = "ProjectInfo"
           /\ last.ret.id = last.args.project_id
           /\ last.ret.name = last.args.name
           /\ last.ret.description = last.args.description

\* A name no project and no dataset carries.
UnusedName == Name("U")

\* C22: create_project and create_dataset do not fail because the requested
\* name is taken (a call fails with a taken name exactly when it fails with
\* an unused one), and the record they return carries the name the platform
\* assigned: get_project / get_dataset on the returned id reports the same
\* name, also when it is not the requested one.
C22_ConflictingNameRenamed ==
    /\ (IsAdapterCall(last, "create_project") /\ last.exc = "none")
        => /\ last.ret.name.base = last.args.name.base
           /\ SlyBackend_get_project(remote, inst, last.ret.id, 0).exc = "none"
           /\ SlyBackend_get_project(remote, inst, last.ret.id, 0).ret.name = last.ret.name
    /\ (IsAdapterCall(last, "create_dataset") /\ last.exc = "none")
        => /\ last.ret.name.base = last.args.name.base
           /\ SlyBackend_get_dataset(remote, inst, last.ret.id, 0).exc = "none"
           /\ SlyBackend_get_dataset(remote, inst, last.ret.id, 0).ret.name = last.ret.name
    /\ inst.live
        => /\ \A id \in ProjectIdArgs, f \in 0..1 :
                SlyBackend_create_dataset(remote, inst, id, Name("P"), "d", f).exc
                    = SlyBackend_create_dataset(remote, inst, id, UnusedName, "d", f).exc
           /\ \A f \in 0..3 :
                SlyBackend_create_project(remote, inst, Name("P"), "d", "IMAGES",
                                          [given |-> TRUE, items |-> <<>>], f).exc
                    = SlyBackend_create_project(remote, inst, UnusedName, "d", "IMAGES",
                                                [given |-> TRUE, items |-> <<>>], f).exc

\* create_dataset succeeded in a project that already had a dataset of the
\* requested name; the platform holds both, the new one renamed.
C22_Witness ==
    /\ IsAdapterCall(last, "create_dataset")
    /\ last.exc = "none"
    /\ last.ret.name # last.args.name
    /\ \E d \in remote.datasets :
            /\ d.id # last.ret.id
            /\ d.project_id = last.ret.project_id
            /\ d.name = last.args.name

====
